---- MODULE Spec2Model ----
(***************************************************************************)
(* A model of the Thud rules engine: the bounds-checked coordinate type,   *)
(* the 8 directions, the ray caster, the Board primitives and the turn     *)
(* state machine of struct Thud.                                           *)
(***************************************************************************)
EXTENDS Integers, Sequences, FiniteSets, TLC

VARIABLES
    squares,   \* Board.squares: [0..14 -> [0..14 -> Piece]]
    state,     \* Thud.state: the GameState
    op,        \* the method called last
    ret,       \* what that call returned
    prev,      \* Thud.state when that call was made
    src,       \* first Coord argument of the last Board-level call
    dst,       \* second Coord argument of the last Board-level call
    pre        \* Board.squares when the last Board-level call was made

vars == <<squares, state, op, ret, prev, src, dst, pre>>

(***************************************************************************)
(* Bounds of the model.                                                    *)
(***************************************************************************)
\* longest Vec<Direction> handed to troll_cap / troll_capture
MaxDirs == 2
\* most Board::place calls made on a fresh Board before a primitive is tried
MaxPlace == 1
\* largest usize handed to Coord::zero_based as x or y
MaxXY == 16

(***************************************************************************)
(* piece.rs, lib.rs: the enums.                                            *)
(***************************************************************************)
Piece == {"Dwarf", "Troll", "Thudstone", "Empty"}

Player == {"Dwarf", "Troll"}

EndState == {"WonDwarf", "WonTroll", "Draw"}

\* ThudError, with the two usize fields of Obstacle and LineTooShort
ThudError(kind, a, b) == [kind |-> kind, a |-> a, b |-> b]

InvalidPosition == ThudError("InvalidPosition", 0, 0)
IllegalMove == ThudError("IllegalMove", 0, 0)
Obstacle(x, y) == ThudError("Obstacle", x, y)
LineTooShort(need, have) == ThudError("LineTooShort", need, have)
MathError == ThudError("MathError", 0, 0)
BadAction == ThudError("BadAction", 0, 0)

\* Result<T, ThudError>
Ok(v) == [ok |-> TRUE, val |-> v, err |-> ThudError("none", 0, 0)]
Err(e) == [ok |-> FALSE, val |-> 0, err |-> e]

\* Ok(()) of a MoveResult and an Option<EndState>, as they are recorded in ret
OkUnit == ThudError("Ok", 0, 0)
Option(w) == ThudError(w, 0, 0)

(***************************************************************************)
(* coord.rs                                                                *)
(***************************************************************************)
Coord(x, y) == [x |-> x, y |-> y]

\* check_coords with the extreme-corner test off by one
check_coords_corner_off(x, y) ==
    LET sum == x + y
        invalid == \/ x > 14
                   \/ y > 14
                   \/ sum < 4
                   \/ sum > 23
                   \/ 15 - x + y < 6
                   \/ 15 + x - y < 6
    IN ~invalid

\* check_coords without the two outer-corner tests
check_coords_two_corners(x, y) ==
    LET sum == x + y
        invalid == \/ x > 14
                   \/ y > 14
                   \/ sum < 5
                   \/ sum > 23
    IN ~invalid

\* Coord::check_coords: TRUE for Ok(()), FALSE for Err(InvalidPosition)
check_coords(x, y) ==
    LET sum == x + y
        invalid == \/ x > 14
                   \/ y > 14
                   \/ sum < 5
                   \/ sum > 23
                   \/ 15 - x + y < 6
                   \/ 15 + x - y < 6
    IN ~invalid

zero_based(x, y) ==
    IF check_coords(x, y) THEN Ok(Coord(x, y)) ELSE Err(InvalidPosition)

value(c) == <<c.x, c.y>>

max(c) == IF c.x > c.y THEN c.x ELSE c.y

diff(a, b) ==
    LET new_x == IF a.x > b.x THEN a.x - b.x ELSE b.x - a.x
        new_y == IF a.y > b.y THEN a.y - b.y ELSE b.y - a.y
    IN Coord(new_x, new_y)

(***************************************************************************)
(* direction.rs                                                            *)
(***************************************************************************)
all == <<"Up", "UpRight", "Right", "DownRight", "Down", "DownLeft", "Left", "UpLeft">>

Direction == {all[i] : i \in 1..Len(all)}

\* from_route with the two left-hand diagonals exchanged
from_route_left_swapped(start, end) ==
    IF start = end THEN Err(MathError)
    ELSE
        LET sx == start.x
            sy == start.y
            dx == end.x
            dy == end.y
            d  == diff(start, end)
        IN  IF sx = dx THEN (IF sy < dy THEN Ok("Up") ELSE Ok("Down"))
            ELSE IF sy = dy THEN (IF sx < dx THEN Ok("Right") ELSE Ok("Left"))
            ELSE IF d.x = d.y THEN
                (IF sx < dx
                 THEN (IF sy < dy THEN Ok("UpRight") ELSE Ok("DownRight"))
                 ELSE (IF sy < dy THEN Ok("DownLeft") ELSE Ok("UpLeft")))
            ELSE Err(MathError)

\* from_route without the test for equal Coords
from_route_equal_allowed(start, end) ==
    LET sx == start.x
        sy == start.y
        dx == end.x
        dy == end.y
        d  == diff(start, end)
    IN  IF sx = dx THEN (IF sy < dy THEN Ok("Up") ELSE Ok("Down"))
        ELSE IF sy = dy THEN (IF sx < dx THEN Ok("Right") ELSE Ok("Left"))
        ELSE IF d.x = d.y THEN
            (IF sx < dx
             THEN (IF sy < dy THEN Ok("UpRight") ELSE Ok("DownRight"))
             ELSE (IF sy < dy THEN Ok("UpLeft") ELSE Ok("DownLeft")))
        ELSE Err(MathError)

from_route(start, end) ==
    IF start = end THEN Err(MathError)
    ELSE
        LET sx == start.x
            sy == start.y
            dx == end.x
            dy == end.y
            d  == diff(start, end)
        IN  IF sx = dx THEN (IF sy < dy THEN Ok("Up") ELSE Ok("Down"))
            ELSE IF sy = dy THEN (IF sx < dx THEN Ok("Right") ELSE Ok("Left"))
            ELSE IF d.x = d.y THEN
                (IF sx < dx
                 THEN (IF sy < dy THEN Ok("UpRight") ELSE Ok("DownRight"))
                 ELSE (IF sy < dy THEN Ok("UpLeft") ELSE Ok("DownLeft")))
            ELSE Err(MathError)

modifier(dir) ==
    CASE dir = "Up"        -> <<0, 1>>
      [] dir = "UpRight"   -> <<1, 1>>
      [] dir = "Right"     -> <<1, 0>>
      [] dir = "DownRight" -> <<1, -1>>
      [] dir = "Down"      -> <<0, -1>>
      [] dir = "DownLeft"  -> <<-1, -1>>
      [] dir = "Left"      -> <<-1, 0>>
      [] dir = "UpLeft"    -> <<-1, 1>>

\* modify that stays on the edge instead of failing at x = 0 or y = 0
modify_clamping(dir, loc) ==
    LET m == modifier(dir)
        x == loc.x
        y == loc.y
        new == <<IF x = 0 /\ m[1] = -1 THEN x ELSE x + m[1],
                 IF y = 0 /\ m[2] = -1 THEN y ELSE y + m[2]>>
        c   == zero_based(new[1], new[2])
    IN IF c.ok THEN Ok(c.val) ELSE Err(MathError)

modify(dir, loc) ==
    LET m == modifier(dir)
        x == loc.x
        y == loc.y
    IN  IF (x = 0 /\ m[1] = -1) \/ (y = 0 /\ m[2] = -1) THEN Err(MathError)
        ELSE
            LET new == <<x + m[1], y + m[2]>>
                c   == zero_based(new[1], new[2])
            IN IF c.ok THEN Ok(c.val) ELSE Err(MathError)

opposite(dir) ==
    CASE dir = "Up"        -> "Down"
      [] dir = "UpRight"   -> "DownLeft"
      [] dir = "Right"     -> "Left"
      [] dir = "DownRight" -> "UpLeft"
      [] dir = "Down"      -> "Up"
      [] dir = "DownLeft"  -> "UpRight"
      [] dir = "Left"      -> "Right"
      [] dir = "UpLeft"    -> "DownRight"

(***************************************************************************)
(* board/mod.rs: the grid, place/get and the fresh layout.                 *)
(***************************************************************************)
\* Board::default(): every square Piece::default() = Empty
default == [x \in 0..14 |-> [y \in 0..14 |-> "Empty"]]

place(board, square, piece) == [board EXCEPT ![square.x][square.y] = piece]

get(board, square) == board[square.x][square.y]

\* impl From<(usize, usize)> for Coord: zero_based(x, y).unwrap()
into(x, y) == zero_based(x, y).val

RECURSIVE place_each(_, _, _, _)
\* a `for` loop of place calls over the Coords of a sequence, from index i
place_each(board, coords, i, piece) ==
    IF i > Len(coords) THEN board
    ELSE place_each(place(board, coords[i], piece), coords, i + 1, piece)

\* fresh with the Thudstone placed first, so that the troll loop covers (7,7)
fresh_stone_first ==
    LET trolls == [k \in 1..9 |-> into(6 + ((k - 1) \div 3), 6 + ((k - 1) % 3))]
        calc1 == [k \in 1..6 |-> into(k - 1, 5 - (k - 1))]
        calc2 == [k \in 1..6 |-> into((k - 1) + 9, k - 1)]
        calc3 == [k \in 1..6 |-> into(k - 1, (k - 1) + 9)]
        calc4 == [k \in 1..6 |-> into((k - 1) + 9, 14 - (k - 1))]
        extras == <<into(0, 6), into(0, 8), into(14, 6), into(14, 8),
                    into(6, 0), into(8, 0), into(6, 14), into(8, 14)>>
        b0 == place(default, into(7, 7), "Thudstone")
        b1 == place_each(b0, trolls, 1, "Troll")
        b2 == place_each(b1, calc1 \o calc2 \o calc3 \o calc4, 1, "Dwarf")
    IN place_each(b2, extras, 1, "Dwarf")

fresh ==
    LET trolls == [k \in 1..9 |-> into(6 + ((k - 1) \div 3), 6 + ((k - 1) % 3))]
        calc1 == [k \in 1..6 |-> into(k - 1, 5 - (k - 1))]
        calc2 == [k \in 1..6 |-> into((k - 1) + 9, k - 1)]
        calc3 == [k \in 1..6 |-> into(k - 1, (k - 1) + 9)]
        calc4 == [k \in 1..6 |-> into((k - 1) + 9, 14 - (k - 1))]
        extras == <<into(0, 6), into(0, 8), into(14, 6), into(14, 8),
                    into(6, 0), into(8, 0), into(6, 14), into(8, 14)>>
        b1 == place_each(default, trolls, 1, "Troll")
        b2 == place_each(b1, calc1 \o calc2 \o calc3 \o calc4, 1, "Dwarf")
        b3 == place_each(b2, extras, 1, "Dwarf")
    IN place(b3, into(7, 7), "Thudstone")

\* the index pairs of the 15x15 array, as Coord records
Squares == {Coord(x, y) : x \in 0..14, y \in 0..14}

\* the same pairs in the order of `for x in 0..15 { for y in 0..15 {..} }`
SquaresInOrder == [k \in 1..225 |-> Coord((k - 1) \div 15, (k - 1) % 15)]

\* Board::army: the Vec of the Coords it pushes
army(board, piece_type) ==
    SelectSeq(SquaresInOrder,
              LAMBDA c : board[c.x][c.y] = piece_type /\ zero_based(c.x, c.y).ok)

(***************************************************************************)
(* board/raycast.rs                                                        *)
(***************************************************************************)
RECURSIVE RayCast_collect(_, _, _)
\* the items Iterator::next yields until it returns None, in order
RayCast_collect(board, next_place, dir) ==
    IF next_place.ok
    THEN <<[coord |-> next_place.val, piece |-> get(board, next_place.val)]>>
         \o RayCast_collect(board, modify(dir, next_place.val), dir)
    ELSE <<>>

\* a cast whose first item is the origin itself
cast_from_origin(board, loc, dir) == RayCast_collect(board, Ok(loc), dir)

\* Board::cast: RayCast::new(self, loc, dir), collected
cast(board, loc, dir) == RayCast_collect(board, modify(dir, loc), dir)

(***************************************************************************)
(* board/mod.rs: helpers of the move primitives.                           *)
(***************************************************************************)
adjacent(board, square) ==
    LET stepped == [i \in 1..Len(all) |-> modify(all[i], square)]
        valid == SelectSeq(stepped, LAMBDA r : r.ok)
    IN [i \in 1..Len(valid) |-> [coord |-> valid[i].val, piece |-> get(board, valid[i].val)]]

RECURSIVE verify_clear_loop(_, _, _)
verify_clear_loop(ray, i, dest) ==
    IF i > Len(ray) THEN Ok(0)
    ELSE IF ray[i].coord = dest THEN Ok(0)
    ELSE IF ray[i].piece # "Empty" THEN Err(Obstacle(ray[i].coord.x, ray[i].coord.y))
    ELSE verify_clear_loop(ray, i + 1, dest)

verify_clear(board, from, dest) ==
    LET dir == from_route(from, dest)
    IN IF ~dir.ok THEN Err(dir.err)
       ELSE verify_clear_loop(cast(board, from, dir.val), 1, dest)

RECURSIVE count_line_loop(_, _, _, _)
count_line_loop(ray, i, piece, length) ==
    IF i > Len(ray) THEN length
    ELSE IF ray[i].piece # piece THEN length
    ELSE count_line_loop(ray, i + 1, piece, length + 1)

\* count_line that does not count the square it starts on
count_line_from_zero(board, start, dir, piece) ==
    IF get(board, start) # piece THEN 0
    ELSE count_line_loop(cast(board, start, dir), 1, piece, 0)

count_line(board, start, dir, piece) ==
    IF get(board, start) # piece THEN 0
    ELSE count_line_loop(cast(board, start, dir), 1, piece, 1)

(***************************************************************************)
(* board/mod.rs: the five move primitives.  Each returns the Result and    *)
(* the grid the call leaves behind.                                        *)
(***************************************************************************)
Outcome(res, board) == [res |-> res, squares |-> board]

\* troll_move without the check that the target square is Empty
troll_move_onto_any(board, troll, target) ==
    IF get(board, troll) # "Troll"
    THEN Outcome(Err(IllegalMove), board)
    ELSE IF max(diff(troll, target)) # 1
    THEN Outcome(Err(IllegalMove), board)
    ELSE Outcome(Ok(0), place(place(board, troll, "Empty"), target, "Troll"))

\* troll_move without the check of the distance
troll_move_any_distance(board, troll, target) ==
    IF <<get(board, troll), get(board, target)>> # <<"Troll", "Empty">>
    THEN Outcome(Err(IllegalMove), board)
    ELSE Outcome(Ok(0), place(place(board, troll, "Empty"), target, "Troll"))

troll_move(board, troll, target) ==
    IF <<get(board, troll), get(board, target)>> # <<"Troll", "Empty">>
    THEN Outcome(Err(IllegalMove), board)
    ELSE IF max(diff(troll, target)) # 1
    THEN Outcome(Err(IllegalMove), board)
    ELSE Outcome(Ok(0), place(place(board, troll, "Empty"), target, "Troll"))

\* troll_shove counting the Troll line ahead of the troll, not behind it
troll_shove_line_ahead(board, troll, target) ==
    IF <<get(board, troll), get(board, target)>> # <<"Troll", "Empty">>
    THEN Outcome(Err(IllegalMove), board)
    ELSE
        LET clear == verify_clear(board, troll, target)
        IN  IF ~clear.ok THEN Outcome(Err(clear.err), board)
            ELSE
                LET dwarves == SelectSeq(adjacent(board, target),
                                         LAMBDA a : a.piece = "Dwarf")
                IN  IF Len(dwarves) = 0 THEN Outcome(Err(IllegalMove), board)
                    ELSE
                        LET troll_len == count_line(board, troll,
                                                    from_route(troll, target).val, "Troll")
                            dist == max(diff(troll, target))
                        IN  IF dist > troll_len
                            THEN Outcome(Err(LineTooShort(dist, troll_len)), board)
                            ELSE Outcome(Ok(0),
                                         place(place(board, troll, "Empty"), target, "Troll"))

\* troll_shove that counts the line before it looks for a Dwarf next to the target
troll_shove_line_first(board, troll, target) ==
    IF <<get(board, troll), get(board, target)>> # <<"Troll", "Empty">>
    THEN Outcome(Err(IllegalMove), board)
    ELSE
        LET clear == verify_clear(board, troll, target)
        IN  IF ~clear.ok THEN Outcome(Err(clear.err), board)
            ELSE
                LET dwarves == SelectSeq(adjacent(board, target),
                                         LAMBDA a : a.piece = "Dwarf")
                    troll_len == count_line(board, troll,
                                            from_route(target, troll).val, "Troll")
                    dist == max(diff(troll, target))
                IN  IF dist > troll_len \/ Len(dwarves) = 0
                    THEN Outcome(Err(LineTooShort(dist, troll_len)), board)
                    ELSE Outcome(Ok(0),
                                 place(place(board, troll, "Empty"), target, "Troll"))

\* a shove that does not ask for a Dwarf next to the target
troll_shove_no_dwarf(board, troll, target) ==
    IF <<get(board, troll), get(board, target)>> # <<"Troll", "Empty">>
    THEN Outcome(Err(IllegalMove), board)
    ELSE
        LET clear == verify_clear(board, troll, target)
        IN  IF ~clear.ok THEN Outcome(Err(clear.err), board)
            ELSE
                LET troll_len == count_line(board, troll,
                                            from_route(target, troll).val, "Troll")
                    dist == max(diff(troll, target))
                IN  IF dist > troll_len
                    THEN Outcome(Err(LineTooShort(dist, troll_len)), board)
                    ELSE Outcome(Ok(0),
                                 place(place(board, troll, "Empty"), target, "Troll"))

troll_shove(board, troll, target) ==
    IF <<get(board, troll), get(board, target)>> # <<"Troll", "Empty">>
    THEN Outcome(Err(IllegalMove), board)
    ELSE
        LET clear == verify_clear(board, troll, target)
        IN  IF ~clear.ok THEN Outcome(Err(clear.err), board)
            ELSE
                LET dwarves == SelectSeq(adjacent(board, target),
                                         LAMBDA a : a.piece = "Dwarf")
                IN  IF Len(dwarves) = 0 THEN Outcome(Err(IllegalMove), board)
                    ELSE
                        LET troll_len == count_line(board, troll,
                                                    from_route(target, troll).val, "Troll")
                            dist == max(diff(troll, target))
                        IN  IF dist > troll_len
                            THEN Outcome(Err(LineTooShort(dist, troll_len)), board)
                            ELSE Outcome(Ok(0),
                                         place(place(board, troll, "Empty"), target, "Troll"))

RECURSIVE troll_capture_loop_count_all(_, _, _, _, _)
\* the capture loop counting every direction that stays on the board
troll_capture_loop_count_all(board, troll, targets, i, captured) ==
    IF i > Len(targets) THEN Outcome(Ok(captured), board)
    ELSE
        LET coord == modify(targets[i], troll)
        IN  IF coord.ok
            THEN troll_capture_loop_count_all(
                     IF get(board, coord.val) = "Dwarf"
                     THEN place(board, coord.val, "Empty") ELSE board,
                     troll, targets, i + 1, captured + 1)
            ELSE troll_capture_loop_count_all(board, troll, targets, i + 1, captured)

RECURSIVE troll_capture_loop(_, _, _, _, _)
troll_capture_loop(board, troll, targets, i, captured) ==
    IF i > Len(targets) THEN Outcome(Ok(captured), board)
    ELSE
        LET coord == modify(targets[i], troll)
        IN  IF coord.ok /\ get(board, coord.val) = "Dwarf"
            THEN troll_capture_loop(place(board, coord.val, "Empty"), troll, targets,
                                    i + 1, captured + 1)
            ELSE troll_capture_loop(board, troll, targets, i + 1, captured)

\* troll_capture without the check that a Troll stands on the square
troll_capture_any_piece(board, troll, targets) ==
    troll_capture_loop(board, troll, targets, 1, 0)

troll_capture(board, troll, targets) ==
    IF get(board, troll) # "Troll" THEN Outcome(Err(IllegalMove), board)
    ELSE troll_capture_loop(board, troll, targets, 1, 0)

\* dwarf_move that only looks at the two end squares
dwarf_move_jumping(board, dwarf, target) ==
    IF <<get(board, dwarf), get(board, target)>> # <<"Dwarf", "Empty">>
    THEN Outcome(Err(IllegalMove), board)
    ELSE
        LET dir == from_route(dwarf, target)
        IN  IF ~dir.ok THEN Outcome(Err(dir.err), board)
            ELSE Outcome(Ok(0), place(place(board, dwarf, "Empty"), target, "Dwarf"))

\* dwarf_move that leaves the dwarf on its square as well
dwarf_move_copying(board, dwarf, target) ==
    IF <<get(board, dwarf), get(board, target)>> # <<"Dwarf", "Empty">>
    THEN Outcome(Err(IllegalMove), board)
    ELSE
        LET clear == verify_clear(board, dwarf, target)
        IN  IF ~clear.ok THEN Outcome(Err(clear.err), board)
            ELSE Outcome(Ok(0), place(board, target, "Dwarf"))

dwarf_move(board, dwarf, target) ==
    IF <<get(board, dwarf), get(board, target)>> # <<"Dwarf", "Empty">>
    THEN Outcome(Err(IllegalMove), board)
    ELSE
        LET clear == verify_clear(board, dwarf, target)
        IN  IF ~clear.ok THEN Outcome(Err(clear.err), board)
            ELSE Outcome(Ok(0), place(place(board, dwarf, "Empty"), target, "Dwarf"))

\* dwarf_hurl with the pieces placed before the supporting line is counted
dwarf_hurl_place_first(board, dwarf, target) ==
    IF get(board, dwarf) # "Dwarf" \/ get(board, target) # "Troll"
    THEN Outcome(Err(IllegalMove), board)
    ELSE
        LET clear == verify_clear(board, dwarf, target)
        IN  IF ~clear.ok THEN Outcome(Err(clear.err), board)
            ELSE
                LET moved == place(place(board, dwarf, "Empty"), target, "Dwarf")
                    dwarf_len == count_line(board, dwarf,
                                            from_route(target, dwarf).val, "Dwarf")
                    dist == max(diff(dwarf, target))
                IN  IF dwarf_len < dist
                    THEN Outcome(Err(LineTooShort(dist, dwarf_len)), moved)
                    ELSE Outcome(Ok(0), moved)

\* dwarf_hurl that also lands on an Empty square
dwarf_hurl_onto_empty(board, dwarf, target) ==
    IF get(board, dwarf) # "Dwarf" \/ get(board, target) \notin {"Troll", "Empty"}
    THEN Outcome(Err(IllegalMove), board)
    ELSE
        LET clear == verify_clear(board, dwarf, target)
        IN  IF ~clear.ok THEN Outcome(Err(clear.err), board)
            ELSE
                LET dwarf_len == count_line(board, dwarf,
                                            from_route(target, dwarf).val, "Dwarf")
                    dist == max(diff(dwarf, target))
                IN  IF dwarf_len < dist
                    THEN Outcome(Err(LineTooShort(dist, dwarf_len)), board)
                    ELSE Outcome(Ok(0),
                                 place(place(board, dwarf, "Empty"), target, "Dwarf"))

\* dwarf_hurl that leaves the hurled dwarf on its square as well
dwarf_hurl_copying(board, dwarf, target) ==
    IF get(board, dwarf) # "Dwarf" \/ get(board, target) # "Troll"
    THEN Outcome(Err(IllegalMove), board)
    ELSE
        LET clear == verify_clear(board, dwarf, target)
        IN  IF ~clear.ok THEN Outcome(Err(clear.err), board)
            ELSE
                LET dwarf_len == count_line(board, dwarf,
                                            from_route(target, dwarf).val, "Dwarf")
                    dist == max(diff(dwarf, target))
                IN  IF dwarf_len < dist
                    THEN Outcome(Err(LineTooShort(dist, dwarf_len)), board)
                    ELSE Outcome(Ok(0), place(board, target, "Dwarf"))

dwarf_hurl(board, dwarf, target) ==
    IF get(board, dwarf) # "Dwarf" \/ get(board, target) # "Troll"
    THEN Outcome(Err(IllegalMove), board)
    ELSE
        LET clear == verify_clear(board, dwarf, target)
        IN  IF ~clear.ok THEN Outcome(Err(clear.err), board)
            ELSE
                LET dwarf_len == count_line(board, dwarf,
                                            from_route(target, dwarf).val, "Dwarf")
                    dist == max(diff(dwarf, target))
                IN  IF dwarf_len < dist
                    THEN Outcome(Err(LineTooShort(dist, dwarf_len)), board)
                    ELSE Outcome(Ok(0),
                                 place(place(board, dwarf, "Empty"), target, "Dwarf"))

(***************************************************************************)
(* board/mod.rs: available_moves, winner and score.                        *)
(***************************************************************************)
RECURSIVE dwarf_walk(_, _, _)
\* the inner loop of the Dwarf arm over cast(loc, dir).enumerate();
\* count = i - 1 is the zero-based index of enumerate()
dwarf_walk(ray, i, line_behind) ==
    IF i > Len(ray) THEN <<>>
    ELSE IF ray[i].piece = "Empty"
    THEN <<ray[i].coord>> \o dwarf_walk(ray, i + 1, line_behind)
    ELSE IF ray[i].piece = "Troll"
    THEN (IF i - 1 <= line_behind THEN <<ray[i].coord>> ELSE <<>>)
    ELSE <<>>

RECURSIVE troll_walk(_, _, _)
\* the inner loop of the Troll arm over the items i..last of the cast
troll_walk(ray, i, last) ==
    IF i > last THEN <<>>
    ELSE IF ray[i].piece = "Empty"
    THEN <<ray[i].coord>> \o troll_walk(ray, i + 1, last)
    ELSE <<>>

RECURSIVE available_moves_dirs(_, _, _)
\* the `for dir in Direction::all()` loop of either arm, from index k
available_moves_dirs(board, loc, k) ==
    IF k > Len(all) THEN <<>>
    ELSE
        LET dir == all[k]
            ray == cast(board, loc, dir)
            here ==
                IF get(board, loc) = "Dwarf"
                THEN dwarf_walk(ray, 1, count_line(board, loc, opposite(dir), "Dwarf"))
                ELSE
                    \* cast.next() drops the first item, take(behind_line) keeps
                    \* at most behind_line of the rest
                    LET behind_line == count_line(board, loc, opposite(dir), "Troll")
                        last == IF Len(ray) < 1 + behind_line THEN Len(ray)
                                ELSE 1 + behind_line
                    IN troll_walk(ray, 2, last)
        IN here \o available_moves_dirs(board, loc, k + 1)

available_moves(board, loc) ==
    IF get(board, loc) \in {"Dwarf", "Troll"}
    THEN available_moves_dirs(board, loc, 1)
    ELSE <<>>

score(board) ==
    LET dwarves == Len(army(board, "Dwarf"))
        trolls == Len(army(board, "Troll")) * 4
    IN <<dwarves, trolls>>

RECURSIVE moves_sum(_, _, _)
\* the loops of Board::winner adding available_moves(..).len() over an army,
\* from index i
moves_sum(board, pieces, i) ==
    IF i > Len(pieces) THEN 0
    ELSE Len(available_moves(board, pieces[i])) + moves_sum(board, pieces, i + 1)

\* Board::winner that waits until neither army can move
Board_winner_both_stuck(board) ==
    LET dwarf_moves == moves_sum(board, army(board, "Dwarf"), 1)
        troll_moves == moves_sum(board, army(board, "Troll"), 1)
    IN  IF troll_moves = 0 /\ dwarf_moves = 0
        THEN LET sc == score(board)
             IN IF sc[1] > sc[2] THEN "WonDwarf"
                ELSE IF sc[2] > sc[1] THEN "WonTroll"
                ELSE "Draw"
        ELSE "None"

\* Board::winner that only looks at the moves of the trolls
Board_winner_trolls_only(board) ==
    LET troll_moves == moves_sum(board, army(board, "Troll"), 1)
    IN  IF troll_moves = 0
        THEN LET sc == score(board)
             IN IF sc[1] > sc[2] THEN "WonDwarf"
                ELSE IF sc[2] > sc[1] THEN "WonTroll"
                ELSE "Draw"
        ELSE "None"

\* Board::winner: "None" for None, an EndState for Some(_)
Board_winner(board) ==
    LET dwarf_moves == moves_sum(board, army(board, "Dwarf"), 1)
        troll_moves == moves_sum(board, army(board, "Troll"), 1)
    IN  IF troll_moves = 0 \/ dwarf_moves = 0
        THEN LET sc == score(board)
             IN IF sc[1] > sc[2] THEN "WonDwarf"
                ELSE IF sc[2] > sc[1] THEN "WonTroll"
                ELSE "Draw"
        ELSE "None"

(***************************************************************************)
(* state.rs: GameState and the methods of Thud.                            *)
(***************************************************************************)
Nominal(p) == <<"Nominal", p>>
PostTrollMove(shoved) == <<"PostTrollMove", IF shoved THEN "true" ELSE "false">>
GameEnded(e) == <<"GameEnded", e>>

GameState ==
    {Nominal(p) : p \in Player} \cup {PostTrollMove(b) : b \in BOOLEAN}
        \cup {GameEnded(e) : e \in EndState}

\* a Thud value and what a &mut self method returns and leaves behind
Thud(board, st) == [board |-> board, state |-> st]
Returned(r, board, st) == [ret |-> r, board |-> board, state |-> st]

new == Thud(fresh, Nominal("Dwarf"))

\* Thud::turn: "None" for None, a Player for Some(_)
turn(thud) ==
    IF thud.state[1] = "Nominal" THEN thud.state[2]
    ELSE IF thud.state[1] = "PostTrollMove" THEN "Troll"
    ELSE "None"

\* winner that returns the result of Board::winner without storing it
winner_no_latch(thud) ==
    IF thud.state[1] = "GameEnded"
    THEN Returned(thud.state[2], thud.board, thud.state)
    ELSE Returned(Board_winner(thud.board), thud.board, thud.state)

\* Thud::winner: "None" for None, an EndState for Some(_)
winner(thud) ==
    IF thud.state[1] = "GameEnded"
    THEN Returned(thud.state[2], thud.board, thud.state)
    ELSE LET w == Board_winner(thud.board)
         IN IF w # "None"
            THEN Returned(w, thud.board, GameEnded(w))
            ELSE Returned("None", thud.board, thud.state)

\* a MoveResult as it is recorded in ret
Recorded(res) == IF res.ok THEN OkUnit ELSE res.err

\* the `?` of a delegated primitive followed by the phase change
Delegate(thud, out, next) ==
    IF out.res.ok THEN Returned(OkUnit, out.squares, next)
    ELSE Returned(out.res.err, out.squares, thud.state)

\* move_piece that leaves the phase alone after a dwarf has moved
move_piece_no_tick(thud, from, target) ==
    IF thud.state = Nominal("Dwarf")
    THEN Delegate(thud, dwarf_move(thud.board, from, target), Nominal("Dwarf"))
    ELSE IF thud.state = Nominal("Troll")
    THEN Delegate(thud, troll_move(thud.board, from, target), PostTrollMove(FALSE))
    ELSE Returned(BadAction, thud.board, thud.state)

\* move_piece that takes a second troll move while a capture is pending
move_piece_again(thud, from, target) ==
    IF thud.state = Nominal("Dwarf")
    THEN Delegate(thud, dwarf_move(thud.board, from, target), Nominal("Troll"))
    ELSE IF thud.state \in {Nominal("Troll"), PostTrollMove(FALSE)}
    THEN Delegate(thud, troll_move(thud.board, from, target), PostTrollMove(FALSE))
    ELSE Returned(BadAction, thud.board, thud.state)

move_piece(thud, from, target) ==
    IF thud.state = Nominal("Dwarf")
    THEN Delegate(thud, dwarf_move(thud.board, from, target), Nominal("Troll"))
    ELSE IF thud.state = Nominal("Troll")
    THEN Delegate(thud, troll_move(thud.board, from, target), PostTrollMove(FALSE))
    ELSE Returned(BadAction, thud.board, thud.state)

\* attack that enters PostTrollMove without the shove flag
attack_flag_false(thud, from, target) ==
    IF thud.state = Nominal("Dwarf")
    THEN Delegate(thud, dwarf_hurl(thud.board, from, target), Nominal("Troll"))
    ELSE IF thud.state = Nominal("Troll")
    THEN Delegate(thud, troll_shove(thud.board, from, target), PostTrollMove(FALSE))
    ELSE Returned(BadAction, thud.board, thud.state)

attack(thud, from, target) ==
    IF thud.state = Nominal("Dwarf")
    THEN Delegate(thud, dwarf_hurl(thud.board, from, target), Nominal("Troll"))
    ELSE IF thud.state = Nominal("Troll")
    THEN Delegate(thud, troll_shove(thud.board, from, target), PostTrollMove(TRUE))
    ELSE Returned(BadAction, thud.board, thud.state)

\* troll_cap that ends the turn after a shove whatever the number captured
troll_cap_optional(thud, troll, targets) ==
    IF thud.state \in {PostTrollMove(TRUE), PostTrollMove(FALSE)}
    THEN Delegate(thud, troll_capture(thud.board, troll, targets), Nominal("Dwarf"))
    ELSE Returned(BadAction, thud.board, thud.state)

\* troll_cap that leaves the capture phase open after a capture
troll_cap_stays(thud, troll, targets) ==
    IF thud.state[1] = "PostTrollMove"
    THEN LET out == troll_capture(thud.board, troll, targets)
         IN IF ~out.res.ok THEN Returned(out.res.err, out.squares, thud.state)
            ELSE IF out.res.val = 0 /\ thud.state = PostTrollMove(TRUE)
            THEN Returned(IllegalMove, out.squares, thud.state)
            ELSE Returned(OkUnit, out.squares,
                          IF out.res.val = 0 THEN Nominal("Dwarf") ELSE thud.state)
    ELSE Returned(BadAction, thud.board, thud.state)

\* troll_cap that hands the turn back to the Troll player
troll_cap_troll_again(thud, troll, targets) ==
    IF thud.state = PostTrollMove(TRUE)
    THEN LET out == troll_capture(thud.board, troll, targets)
         IN IF ~out.res.ok THEN Returned(out.res.err, out.squares, thud.state)
            ELSE IF out.res.val = 0 THEN Returned(IllegalMove, out.squares, thud.state)
            ELSE Returned(OkUnit, out.squares, Nominal("Troll"))
    ELSE IF thud.state = PostTrollMove(FALSE)
    THEN Delegate(thud, troll_capture(thud.board, troll, targets), Nominal("Troll"))
    ELSE Returned(BadAction, thud.board, thud.state)

troll_cap(thud, troll, targets) ==
    IF thud.state = PostTrollMove(TRUE)
    THEN LET out == troll_capture(thud.board, troll, targets)
         IN IF ~out.res.ok THEN Returned(out.res.err, out.squares, thud.state)
            ELSE IF out.res.val = 0 THEN Returned(IllegalMove, out.squares, thud.state)
            ELSE Returned(OkUnit, out.squares, Nominal("Dwarf"))
    ELSE IF thud.state = PostTrollMove(FALSE)
    THEN Delegate(thud, troll_capture(thud.board, troll, targets), Nominal("Dwarf"))
    ELSE Returned(BadAction, thud.board, thud.state)

(***************************************************************************)
(* The game: a Thud value driven through its public methods from           *)
(* Thud::new().  Coord arguments are drawn from Arena, direction lists     *)
(* from DirLists.                                                          *)
(***************************************************************************)
\* the squares callers name: the dwarf home square (6,0), the two squares
\* under the troll block, two trolls of the block and the Thudstone square
Arena ==
    {Coord(6, 0), Coord(6, 5), Coord(7, 5), Coord(6, 6), Coord(7, 6), Coord(7, 7)}

\* the directions callers ask captures in
CapDirs == {"Down", "Left", "DownLeft"}

DirLists == UNION {[1..n -> CapDirs] : n \in 0..MaxDirs}

\* src and dst while no Board-level call has been made
NoCoord == Coord(0, 0)

Init ==
    /\ squares = new.board
    /\ state = new.state
    /\ op = "new"
    /\ ret = OkUnit
    /\ prev = new.state
    /\ src = NoCoord
    /\ dst = NoCoord
    /\ pre = <<>>

\* dst is the square reached by the Troll that moved or shoved in this turn
\* and src the troll square named in the troll_cap that succeeded in this
\* turn; a Dwarf's successful move or hurl starts a turn and clears both
MovePiece ==
    \E from \in Arena, target \in Arena :
        LET r == move_piece(Thud(squares, state), from, target)
        IN  /\ squares' = r.board
            /\ state' = r.state
            /\ op' = "move_piece"
            /\ ret' = r.ret
            /\ prev' = state
            /\ src' = IF r.ret = OkUnit THEN NoCoord ELSE src
            /\ dst' = IF r.ret # OkUnit THEN dst
                      ELSE IF state = Nominal("Troll") THEN target ELSE NoCoord
            /\ UNCHANGED pre

Attack ==
    \E from \in Arena, target \in Arena :
        LET r == attack(Thud(squares, state), from, target)
        IN  /\ squares' = r.board
            /\ state' = r.state
            /\ op' = "attack"
            /\ ret' = r.ret
            /\ prev' = state
            /\ src' = IF r.ret = OkUnit THEN NoCoord ELSE src
            /\ dst' = IF r.ret # OkUnit THEN dst
                      ELSE IF state = Nominal("Troll") THEN target ELSE NoCoord
            /\ UNCHANGED pre

TrollCap ==
    \E troll \in Arena, targets \in DirLists :
        LET r == troll_cap(Thud(squares, state), troll, targets)
        IN  /\ squares' = r.board
            /\ state' = r.state
            /\ op' = "troll_cap"
            /\ ret' = r.ret
            /\ prev' = state
            /\ src' = IF r.ret = OkUnit THEN troll ELSE src
            /\ UNCHANGED <<dst, pre>>

Winner ==
    LET r == winner(Thud(squares, state))
    IN  /\ squares' = r.board
        /\ state' = r.state
        /\ op' = "winner"
        /\ ret' = Option(r.ret)
        /\ prev' = state
        /\ UNCHANGED <<src, dst, pre>>

Next == MovePiece \/ Attack \/ TrollCap \/ Winner

Spec == Init /\ [][Next]_vars

(***************************************************************************)
(* The end of a game: the same methods, started from positions late in a   *)
(* game (a few pieces left around the Thudstone), where one army can be    *)
(* wiped out and Thud::winner latches the result.                          *)
(***************************************************************************)
LateDwarves == {Coord(6, 5), Coord(6, 0)}
LateTrolls == {Coord(6, 6), Coord(7, 6), Coord(7, 5)}

RECURSIVE place_all(_, _, _)
\* Board::place of one piece on every Coord of a set
place_all(board, coords, piece) ==
    IF coords = {} THEN board
    ELSE LET c == CHOOSE c \in coords : TRUE
         IN place_all(place(board, c, piece), coords \ {c}, piece)

\* a board holding the Thudstone, the dwarves ds and the trolls ts
late_board(ds, ts) ==
    place_all(place_all(place(default, into(7, 7), "Thudstone"), ds, "Dwarf"), ts, "Troll")

\* the last dwarf falls in a troll_cap (Dwarf to play next), the last troll
\* in a hurl (Troll to play next), and the capturing piece is still there
LateInit ==
    \E ds \in SUBSET LateDwarves, ts \in SUBSET LateTrolls, p \in Player :
        /\ ds \cup ts # {}
        /\ ds = {} => p = "Dwarf"
        /\ ts = {} => p = "Troll"
        /\ squares = late_board(ds, ts)
        /\ state = Nominal(p)
        /\ op = "new"
        /\ ret = OkUnit
        /\ prev = Nominal(p)
        /\ src = NoCoord
        /\ dst = NoCoord
        /\ pre = <<>>

LateSpec == LateInit /\ [][Next]_vars

(***************************************************************************)
(* The Board alone: Board::fresh(), the place calls of one of the set-ups  *)
(* of board/tests.rs, up to MaxPlace further calls of Board::place, then   *)
(* one call of a move primitive, with its arguments, the grid before it    *)
(* and its result on record.                                               *)
(***************************************************************************)
\* the pre_places of the troll_shove and dwarf_hurl tests
Setups ==
    {<<>>,
     <<[at |-> into(3, 6), piece |-> "Troll"], [at |-> into(4, 6), piece |-> "Troll"],
       [at |-> into(5, 6), piece |-> "Troll"]>>,
     <<[at |-> into(6, 5), piece |-> "Troll"]>>,
     <<[at |-> into(6, 1), piece |-> "Dwarf"], [at |-> into(6, 2), piece |-> "Dwarf"],
       [at |-> into(6, 3), piece |-> "Dwarf"]>>,
     <<[at |-> into(3, 10), piece |-> "Dwarf"], [at |-> into(4, 9), piece |-> "Dwarf"]>>}

RECURSIVE place_seq(_, _, _)
\* `for place in pre_places { board.place(..) }`, from index i
place_seq(board, calls, i) ==
    IF i > Len(calls) THEN board
    ELSE place_seq(place(board, calls[i].at, calls[i].piece), calls, i + 1)

\* squares Board::place is called on, and the Coords primitives are called with;
\* (4,0) lies outside the region and is the value of (5,0).diff((9,0))
PlaceSquares == {Coord(10, 6), Coord(6, 5), Coord(6, 4), Coord(5, 0)}
PrimSquares ==
    PlaceSquares \cup {Coord(8, 6), Coord(8, 7), Coord(13, 6), Coord(12, 6),
                       Coord(6, 0), Coord(6, 3), Coord(6, 6), Coord(4, 0)}

RECURSIVE placed(_)
\* the grids a set-up and k or fewer further place calls can leave
placed(k) ==
    IF k = 0 THEN {place_seq(fresh, calls, 1) : calls \in Setups}
    ELSE placed(k - 1)
            \cup {place(b, c, p) : b \in placed(k - 1), c \in PlaceSquares, p \in Piece}

BoardInit ==
    /\ squares \in placed(MaxPlace)
    /\ state = <<"Board", "none">>
    /\ op = "place"
    /\ ret = OkUnit
    /\ prev = <<"Board", "none">>
    /\ src = NoCoord
    /\ dst = NoCoord
    /\ pre = <<>>

TrollMove ==
    /\ op = "place"
    /\ \E troll \in PrimSquares, target \in PrimSquares :
        LET out == troll_move(squares, troll, target)
        IN  /\ squares' = out.squares
            /\ pre' = squares
            /\ src' = troll
            /\ dst' = target
            /\ op' = "troll_move"
            /\ ret' = Recorded(out.res)
            /\ UNCHANGED <<state, prev>>

TrollShove ==
    /\ op = "place"
    /\ \E troll \in PrimSquares, target \in PrimSquares :
        LET out == troll_shove(squares, troll, target)
        IN  /\ squares' = out.squares
            /\ pre' = squares
            /\ src' = troll
            /\ dst' = target
            /\ op' = "troll_shove"
            /\ ret' = Recorded(out.res)
            /\ UNCHANGED <<state, prev>>

\* the usize of Ok(captured) is recorded in the first field
TrollCapture ==
    /\ op = "place"
    /\ \E troll \in PrimSquares, targets \in DirLists :
        LET out == troll_capture(squares, troll, targets)
        IN  /\ squares' = out.squares
            /\ pre' = squares
            /\ src' = troll
            /\ dst' = targets
            /\ op' = "troll_capture"
            /\ ret' = IF out.res.ok THEN ThudError("Ok", out.res.val, 0) ELSE out.res.err
            /\ UNCHANGED <<state, prev>>

DwarfMove ==
    /\ op = "place"
    /\ \E dwarf \in PrimSquares, target \in PrimSquares :
        LET out == dwarf_move(squares, dwarf, target)
        IN  /\ squares' = out.squares
            /\ pre' = squares
            /\ src' = dwarf
            /\ dst' = target
            /\ op' = "dwarf_move"
            /\ ret' = Recorded(out.res)
            /\ UNCHANGED <<state, prev>>

DwarfHurl ==
    /\ op = "place"
    /\ \E dwarf \in PrimSquares, target \in PrimSquares :
        LET out == dwarf_hurl(squares, dwarf, target)
        IN  /\ squares' = out.squares
            /\ pre' = squares
            /\ src' = dwarf
            /\ dst' = target
            /\ op' = "dwarf_hurl"
            /\ ret' = Recorded(out.res)
            /\ UNCHANGED <<state, prev>>

BoardNext == TrollMove \/ TrollShove \/ TrollCapture \/ DwarfMove \/ DwarfHurl

BoardSpec == BoardInit /\ [][BoardNext]_vars

(***************************************************************************)
(* The queries of the Board: available_moves and winner, asked once of a   *)
(* grid built by Board::place calls, either on a fresh Board as above or   *)
(* on Board::default() with the Thudstone and a few pieces around it.      *)
(***************************************************************************)
EndDwarves == {Coord(6, 5), Coord(6, 4), Coord(6, 0)}
EndTrolls == {Coord(6, 6), Coord(7, 6)}

\* a grid with one more Dwarf, on the edge square (5,0), and a Thudstone on
\* each of the four squares around it, so that this Dwarf has nowhere to go
boxed_dwarf(board) ==
    place_seq(board,
              <<[at |-> into(6, 0), piece |-> "Thudstone"],
                [at |-> into(4, 1), piece |-> "Thudstone"],
                [at |-> into(5, 1), piece |-> "Thudstone"],
                [at |-> into(6, 1), piece |-> "Thudstone"],
                [at |-> into(5, 0), piece |-> "Dwarf"]>>, 1)

\* a grid with one more Troll, on the edge square (5,0), and a Thudstone two
\* squares from it in each direction that stays on the board
cornered_troll(board) ==
    place_seq(board,
              <<[at |-> into(7, 0), piece |-> "Thudstone"],
                [at |-> into(3, 2), piece |-> "Thudstone"],
                [at |-> into(5, 2), piece |-> "Thudstone"],
                [at |-> into(7, 2), piece |-> "Thudstone"],
                [at |-> into(5, 0), piece |-> "Troll"]>>, 1)

\* the grids with the Thudstone, some of EndDwarves and some of EndTrolls, the
\* grids with the boxed Dwarf and some of EndTrolls, and the grids with the
\* cornered Troll and some of EndDwarves
EndBoards ==
    {late_board(ds, ts) : ds \in SUBSET EndDwarves, ts \in SUBSET EndTrolls}
        \cup {boxed_dwarf(late_board({}, ts)) : ts \in SUBSET EndTrolls}
        \cup {cornered_troll(late_board(ds, {})) : ds \in SUBSET EndDwarves}

\* the Coords available_moves is asked about
QuerySquares == PrimSquares \cup {Coord(7, 6), Coord(7, 7), Coord(0, 5)}

QueryInit ==
    /\ squares \in EndBoards \cup placed(MaxPlace)
    /\ state = <<"Board", "none">>
    /\ op = "place"
    /\ ret = OkUnit
    /\ prev = <<"Board", "none">>
    /\ src = NoCoord
    /\ dst = NoCoord
    /\ pre = <<>>

\* the Vec<Coord> returned is recorded in the first field
AvailableMoves ==
    /\ op = "place"
    /\ \E loc \in QuerySquares :
        /\ op' = "available_moves"
        /\ src' = loc
        /\ ret' = ThudError("Vec", available_moves(squares, loc), 0)
        /\ pre' = squares
        /\ UNCHANGED <<squares, state, prev, dst>>

BoardWinner ==
    /\ op = "place"
    /\ op' = "winner"
    /\ ret' = Option(Board_winner(squares))
    /\ pre' = squares
    /\ UNCHANGED <<squares, state, prev, src, dst>>

\* dst holds the direction and the piece asked about, ret the usize returned
CountLine ==
    /\ op = "place"
    /\ \E start \in QuerySquares, dir \in Direction, piece \in Piece :
        /\ op' = "count_line"
        /\ src' = start
        /\ dst' = <<dir, piece>>
        /\ ret' = ThudError("usize", count_line(squares, start, dir, piece), 0)
        /\ pre' = squares
        /\ UNCHANGED <<squares, state, prev>>

QueryNext == AvailableMoves \/ BoardWinner \/ CountLine

QuerySpec == QueryInit /\ [][QueryNext]_vars

(***************************************************************************)
(* The geometry alone: Coord, Direction and RayCast applied once to an     *)
(* input.  src holds the input pair; dst the second argument (a Coord or a *)
(* Direction); ret the value returned.  A Coord argument is any pair of    *)
(* the 15x15 grid: the checked constructors give the pairs of the region,  *)
(* and Coord::diff, applied to those and to its own results, gives every   *)
(* other pair.                                                             *)
(***************************************************************************)
\* the (x, y) handed to Coord::zero_based
RawPairs == {Coord(x, y) : x \in 0..MaxXY, y \in 0..MaxXY}

RECURSIVE modify_times(_, _, _)
\* dir.modify applied n times in a row, stopping at the first Err
modify_times(dir, loc, n) ==
    IF n = 0 THEN Ok(loc)
    ELSE LET next == modify(dir, loc)
         IN IF next.ok THEN modify_times(dir, next.val, n - 1) ELSE next

GeoInit ==
    /\ squares = fresh
    /\ src \in RawPairs
    /\ state = <<"Board", "none">>
    /\ op = "input"
    /\ ret = OkUnit
    /\ prev = <<"Board", "none">>
    /\ dst = NoCoord
    /\ pre = <<>>

ZeroBased ==
    /\ op = "input"
    /\ op' = "zero_based"
    /\ ret' = zero_based(src.x, src.y)
    /\ UNCHANGED <<squares, state, prev, src, dst, pre>>

Diff ==
    /\ op = "input"
    /\ src \in Squares
    /\ \E rhs \in Squares :
        /\ op' = "diff"
        /\ dst' = rhs
        /\ ret' = Ok(diff(src, rhs))
        /\ UNCHANGED <<squares, state, prev, src, pre>>

FromRoute ==
    /\ op = "input"
    /\ src \in Squares
    /\ \E end \in Squares :
        /\ op' = "from_route"
        /\ dst' = end
        /\ ret' = from_route(src, end)
        /\ UNCHANGED <<squares, state, prev, src, pre>>

Modify ==
    /\ op = "input"
    /\ src \in Squares
    /\ \E dir \in Direction :
        /\ op' = "modify"
        /\ dst' = dir
        /\ ret' = modify(dir, src)
        /\ UNCHANGED <<squares, state, prev, src, pre>>

\* from_route(src, end), then modify as many times as the two are apart
RoundTrip ==
    /\ op = "input"
    /\ src \in Squares
    /\ \E end \in Squares :
        /\ from_route(src, end).ok
        /\ op' = "round_trip"
        /\ dst' = end
        /\ ret' = modify_times(from_route(src, end).val, src, max(diff(src, end)))
        /\ UNCHANGED <<squares, state, prev, src, pre>>

\* the Vec the RayCast collects to is recorded
Cast ==
    /\ op = "input"
    /\ src \in Squares
    /\ \E dir \in Direction :
        /\ op' = "cast"
        /\ dst' = dir
        /\ ret' = Ok(cast(squares, src, dir))
        /\ UNCHANGED <<squares, state, prev, src, pre>>

GeoNext == ZeroBased \/ Diff \/ FromRoute \/ Modify \/ RoundTrip \/ Cast

GeoSpec == GeoInit /\ [][GeoNext]_vars

(***************************************************************************)
(* Properties.                                                             *)
(***************************************************************************)
Mutators == {"move_piece", "attack", "troll_cap"}

\* the Thud value of the current state
Now == Thud(squares, state)

\* dwarves anywhere on the 15x15 grid
DwarfCount(board) == Cardinality({c \in Squares : get(board, c) = "Dwarf"})

Abs(n) == IF n < 0 THEN -n ELSE n

\* Chebyshev distance max(|x1 - x2|, |y1 - y2|)
Chebyshev(a, b) ==
    IF Abs(a.x - b.x) > Abs(a.y - b.y) THEN Abs(a.x - b.x) ELSE Abs(a.y - b.y)

\* a call that returned an error left the grid and the phase as they were
Untouched(r) == r.ret # OkUnit => (r.board = squares /\ r.state = state)
UntouchedGrid(out) == ~out.res.ok => out.squares = squares

\* C1: failure atomicity.  In every reachable state and for every argument,
\* a call of move_piece, attack or troll_cap, or of one of the five Board
\* primitives, that returns an error leaves the whole grid and the phase
\* identical to what they were before the call.
C1_FailureAtomicity ==
    /\ \A from \in Arena, target \in Arena :
        /\ Untouched(move_piece(Now, from, target))
        /\ Untouched(attack(Now, from, target))
        /\ UntouchedGrid(troll_move(squares, from, target))
        /\ UntouchedGrid(troll_shove(squares, from, target))
        /\ UntouchedGrid(dwarf_move(squares, from, target))
        /\ UntouchedGrid(dwarf_hurl(squares, from, target))
    /\ \A troll \in Arena, targets \in DirLists :
        /\ Untouched(troll_cap(Now, troll, targets))
        /\ UntouchedGrid(troll_capture(squares, troll, targets))

\* a hurl was refused for want of a supporting line
C1_Witness == op = "attack" /\ ret.kind = "LineTooShort" /\ prev = Nominal("Dwarf")

\* C2: in Nominal(Dwarf) move_piece does what dwarf_move does and attack what
\* dwarf_hurl does; when the primitive succeeds the phase is Nominal(Troll)
\* at once (turn() = Troll), when it fails the phase stays.
C2_DwarfTurn ==
    state = Nominal("Dwarf") =>
        \A from \in Arena, target \in Arena :
            LET m == move_piece(Now, from, target)
                dm == dwarf_move(squares, from, target)
                a == attack(Now, from, target)
                dh == dwarf_hurl(squares, from, target)
            IN  /\ m.board = dm.squares /\ m.ret = Recorded(dm.res)
                /\ m.state = IF dm.res.ok THEN Nominal("Troll") ELSE state
                /\ dm.res.ok => turn(Thud(m.board, m.state)) = "Troll"
                /\ a.board = dh.squares /\ a.ret = Recorded(dh.res)
                /\ a.state = IF dh.res.ok THEN Nominal("Troll") ELSE state
                /\ dh.res.ok => turn(Thud(a.board, a.state)) = "Troll"

\* a dwarf has hurled itself at a troll and the turn passed to the trolls
C2_Witness ==
    op = "attack" /\ prev = Nominal("Dwarf") /\ ret = OkUnit /\ state = Nominal("Troll")

\* C3: in Nominal(Troll) a successful move_piece (troll_move) sets the phase
\* to PostTrollMove(false) and a successful attack (troll_shove) sets it to
\* PostTrollMove(true); turn() reports Troll in both.
C3_TrollTurn ==
    state = Nominal("Troll") =>
        \A from \in Arena, target \in Arena :
            LET m == move_piece(Now, from, target)
                tm == troll_move(squares, from, target)
                a == attack(Now, from, target)
                ts == troll_shove(squares, from, target)
            IN  /\ m.board = tm.squares /\ m.ret = Recorded(tm.res)
                /\ m.state = IF tm.res.ok THEN PostTrollMove(FALSE) ELSE state
                /\ tm.res.ok => turn(Thud(m.board, m.state)) = "Troll"
                /\ a.board = ts.squares /\ a.ret = Recorded(ts.res)
                /\ a.state = IF ts.res.ok THEN PostTrollMove(TRUE) ELSE state
                /\ ts.res.ok => turn(Thud(a.board, a.state)) = "Troll"

\* a troll has shoved and owes a capture
C3_Witness ==
    op = "attack" /\ prev = Nominal("Troll") /\ ret = OkUnit
        /\ state = PostTrollMove(TRUE) /\ turn(Now) = "Troll"

\* C4: in PostTrollMove(true) a troll_cap call that removes no dwarf (an
\* empty direction list included) fails with IllegalMove and the phase stays
\* PostTrollMove(true); a call that removes at least one dwarf succeeds and
\* the phase becomes Nominal(Dwarf).
C4_MandatoryCapture ==
    state = PostTrollMove(TRUE) =>
        \A troll \in Arena, targets \in DirLists :
            LET r == troll_cap(Now, troll, targets)
                n == DwarfCount(squares) - DwarfCount(r.board)
            IN  /\ n >= 0
                /\ n = 0 => (r.ret = IllegalMove /\ r.state = state)
                /\ n >= 1 => (r.ret = OkUnit /\ r.state = Nominal("Dwarf"))

\* the capture owed after a shove has been made
C4_Witness ==
    op = "troll_cap" /\ prev = PostTrollMove(TRUE) /\ ret = OkUnit
        /\ state = Nominal("Dwarf") /\ DwarfCount(squares) < 32

\* C5 as stated: in PostTrollMove(false) troll_cap succeeds for every src
\* coordinate and every direction list, and the phase becomes Nominal(Dwarf).
C5_AlwaysSucceeds ==
    state = PostTrollMove(FALSE) =>
        \A troll \in Arena, targets \in DirLists :
            LET r == troll_cap(Now, troll, targets)
            IN r.ret = OkUnit /\ r.state = Nominal("Dwarf")

\* C5 (amended): in PostTrollMove(false) troll_cap(src, directions) succeeds
\* for every direction list exactly when src holds a Troll, and the phase then
\* becomes Nominal(Dwarf) however many dwarves were captured; when src does not
\* hold a Troll it fails with IllegalMove and leaves phase and grid unchanged.
C5_OptionalCapture ==
    state = PostTrollMove(FALSE) =>
        \A troll \in Arena, targets \in DirLists :
            LET r == troll_cap(Now, troll, targets)
            IN  IF get(squares, troll) = "Troll"
                THEN r.ret = OkUnit /\ r.state = Nominal("Dwarf")
                ELSE r.ret = IllegalMove /\ r.state = state /\ r.board = squares

\* a plain troll move was followed by a troll_cap that captured nothing
C5_Witness ==
    op = "troll_cap" /\ prev = PostTrollMove(FALSE) /\ ret = OkUnit
        /\ state = Nominal("Dwarf") /\ DwarfCount(squares) = 32

\* C6: move_piece and attack in PostTrollMove(_) or GameEnded(_), and
\* troll_cap in Nominal(_) or GameEnded(_), fail with BadAction whatever
\* their arguments and leave phase and grid unchanged.
C6_BadAction ==
    /\ state[1] \in {"PostTrollMove", "GameEnded"} =>
        \A from \in Arena, target \in Arena :
            /\ move_piece(Now, from, target) = Returned(BadAction, squares, state)
            /\ attack(Now, from, target) = Returned(BadAction, squares, state)
    /\ state[1] \in {"Nominal", "GameEnded"} =>
        \A troll \in Arena, targets \in DirLists :
            troll_cap(Now, troll, targets) = Returned(BadAction, squares, state)

\* a move was refused while a capture was pending
C6_Witness == op = "move_piece" /\ ret = BadAction /\ prev[1] = "PostTrollMove"

\* C7: the winner() call that finds Board::winner() = Some(r) sets the phase
\* to GameEnded(r) and returns Some(r); from a GameEnded(r) phase every call
\* leaves phase and grid as they are, winner() returns Some(r), every mutator
\* returns BadAction and turn() is None.
C7_EndedLatched ==
    [][/\ (op' = "winner" /\ state[1] # "GameEnded" /\ Board_winner(squares) # "None")
            => /\ state' = GameEnded(Board_winner(squares))
               /\ ret' = Option(Board_winner(squares))
               /\ squares' = squares
       /\ state[1] = "GameEnded"
            => /\ state' = state
               /\ squares' = squares
               /\ op' = "winner" => ret' = Option(state[2])
               /\ op' \in Mutators => ret' = BadAction
               /\ turn(Thud(squares', state')) = "None"]_vars

\* a mutator was refused after the game had ended
C7_Witness ==
    state[1] = "GameEnded" /\ prev = state /\ op \in Mutators /\ ret = BadAction

\* the troll block of the fresh layout
TrollBlock == {Coord(x, y) : x \in 6..8, y \in 6..8} \ {Coord(7, 7)}

\* C8: Thud::new() is in phase Nominal(Dwarf) over the fresh layout: Trolls on
\* exactly the 8 squares with x, y in 6..8 other than (7,7), one Thudstone, at
\* (7,7), exactly 32 Dwarves, every other square Empty.
C8_FreshLayout ==
    op = "new" =>
        /\ state = Nominal("Dwarf")
        /\ {c \in Squares : get(squares, c) = "Troll"} = TrollBlock
        /\ Cardinality(TrollBlock) = 8
        /\ {c \in Squares : get(squares, c) = "Thudstone"} = {Coord(7, 7)}
        /\ DwarfCount(squares) = 32
        /\ Cardinality({c \in Squares : get(squares, c) = "Empty"}) = 225 - 8 - 1 - 32

\* the game as Thud::new() returns it
C8_Witness == op = "new" /\ turn(Now) = "Dwarf" /\ get(squares, Coord(8, 7)) = "Troll"

\* C9: in every state reachable from Thud::new() the grid holds exactly one
\* Thudstone and it is at (7,7).
C9_Thudstone == {c \in Squares : get(squares, c) = "Thudstone"} = {Coord(7, 7)}

\* a troll next to the Thudstone was told to step onto it and was refused
C9_Witness ==
    /\ op = "move_piece" /\ ret = IllegalMove /\ state = Nominal("Troll")
    /\ get(squares, Coord(6, 6)) = "Troll"
    /\ move_piece(Now, Coord(6, 6), Coord(7, 7)).ret = IllegalMove

\* C10: troll_move(src, dst) succeeds iff src holds a Troll, dst holds Empty
\* and their Chebyshev distance is exactly 1; on success src is Empty, dst is
\* Troll and no other square has changed; otherwise it returns IllegalMove.
C10_TrollMove ==
    op = "troll_move" =>
        LET legal == /\ get(pre, src) = "Troll"
                     /\ get(pre, dst) = "Empty"
                     /\ Chebyshev(src, dst) = 1
        IN  /\ ret = OkUnit <=> legal
            /\ legal =>
                /\ get(squares, src) = "Empty"
                /\ get(squares, dst) = "Troll"
                /\ \A c \in Squares \ {src, dst} : get(squares, c) = get(pre, c)
            /\ ~legal => ret = IllegalMove

\* a troll has stepped one square
C10_Witness ==
    op = "troll_move" /\ ret = OkUnit /\ get(pre, src) = "Troll"
        /\ get(squares, dst) = "Troll" /\ get(squares, src) = "Empty"

\* two distinct squares on a common row, column or diagonal
OnLine(a, b) ==
    a # b /\ (a.x = b.x \/ a.y = b.y \/ Abs(a.x - b.x) = Abs(a.y - b.y))

Sgn(n) == IF n > 0 THEN 1 ELSE IF n < 0 THEN -1 ELSE 0

\* the squares strictly between two squares on a common line
Between(a, b) ==
    {Coord(a.x + k * Sgn(b.x - a.x), a.y + k * Sgn(b.y - a.y)) :
        k \in 1..(Chebyshev(a, b) - 1)}

\* the square k steps from a, away from b
Behind(a, b, k) == Coord(a.x - k * Sgn(b.x - a.x), a.y - k * Sgn(b.y - a.y))

\* a square of the board region that holds the piece
Holds(board, c, piece) ==
    c \in Squares /\ check_coords(c.x, c.y) /\ get(board, c) = piece

\* length of the contiguous line of one piece that starts at a (a counted)
\* and runs away from b
LineBehind(board, a, b, piece) ==
    CHOOSE n \in 0..15 :
        /\ \A k \in 0..(n - 1) : Holds(board, Behind(a, b, k), piece)
        /\ ~Holds(board, Behind(a, b, n), piece)

\* some square next to c holds a Dwarf
DwarfNextTo(board, c) ==
    \E d \in Squares : Chebyshev(c, d) = 1 /\ Holds(board, d, "Dwarf")

\* the call recorded in op, src, dst moved the piece from src to dst and
\* changed no other square
Relocated(piece) ==
    /\ get(squares, src) = "Empty"
    /\ get(squares, dst) = piece
    /\ \A c \in Squares \ {src, dst} : get(squares, c) = get(pre, c)

\* C11: troll_shove(src, dst) succeeds iff src holds a Troll, dst holds Empty,
\* src and dst lie on a common row, column or diagonal, every square strictly
\* between them is Empty, a square adjacent to dst holds a Dwarf, and the
\* Chebyshev distance src-dst is at most the length of the contiguous Troll
\* line that starts at src (src counted) and runs opposite to the direction of
\* travel; on success only src (to Empty) and dst (to Troll) change.
C11_TrollShove ==
    op = "troll_shove" =>
        LET legal == /\ get(pre, src) = "Troll"
                     /\ get(pre, dst) = "Empty"
                     /\ OnLine(src, dst)
                     /\ \A c \in Between(src, dst) : get(pre, c) = "Empty"
                     /\ DwarfNextTo(pre, dst)
                     /\ Chebyshev(src, dst) <= LineBehind(pre, src, dst, "Troll")
        IN  /\ ret = OkUnit <=> legal
            /\ ret = OkUnit => Relocated("Troll")
            /\ ret # OkUnit => squares = pre

\* a troll was shoved five squares by the line of six behind it
C11_Witness ==
    op = "troll_shove" /\ ret = OkUnit /\ Chebyshev(src, dst) = 5
        /\ LineBehind(pre, src, dst, "Troll") = 6 /\ get(squares, dst) = "Troll"

\* the primitives that travel along a line
StraightLine == {"troll_shove", "dwarf_move", "dwarf_hurl"}

\* C12: a failing troll_shove returns Obstacle if the path is blocked,
\* LineTooShort if the supporting line is too short and IllegalMove for every
\* other failed precondition; troll_shove, dwarf_move and dwarf_hurl reject a
\* src/dst pair that is not on a common row, column or diagonal with
\* IllegalMove, and none of them returns an error of any other kind than
\* Obstacle, LineTooShort or IllegalMove.
C12_ErrorTaxonomy ==
    op \in StraightLine =>
        /\ ret # OkUnit => ret.kind \in {"Obstacle", "LineTooShort", "IllegalMove"}
        /\ ~OnLine(src, dst) => ret = IllegalMove
        /\ (op = "troll_shove" /\ ret.kind = "Obstacle") =>
                \E c \in Between(src, dst) : get(pre, c) # "Empty"
        /\ (op = "troll_shove" /\ ret.kind = "LineTooShort") =>
                Chebyshev(src, dst) > LineBehind(pre, src, dst, "Troll")

\* the fresh board with extra Trolls placed at (3,6), (4,6) and (5,6)
TrollLineBoard ==
    place(place(place(fresh, Coord(3, 6), "Troll"), Coord(4, 6), "Troll"),
          Coord(5, 6), "Troll")

\* troll_shove((8,6) -> (12,6)) was called on that board
ShoveTo12 ==
    op = "troll_shove" /\ pre = TrollLineBoard /\ src = Coord(8, 6) /\ dst = Coord(12, 6)

\* C13 as stated: on the fresh board with extra Trolls at (3,6), (4,6) and
\* (5,6), troll_shove((8,6) -> (12,6)) fails with LineTooShort.
C13_LineTooShort == ShoveTo12 => ret.kind = "LineTooShort"

\* C13 (amended): on that board troll_shove((8,6) -> (12,6)) fails with
\* IllegalMove and changes nothing: no square adjacent to (12,6) holds a
\* Dwarf, while the Troll line behind (8,6) has length 6, enough for the
\* distance of 4.
C13_NoDwarfAtTarget ==
    ShoveTo12 =>
        /\ ret = IllegalMove
        /\ squares = pre
        /\ ~DwarfNextTo(pre, dst)
        /\ LineBehind(pre, src, dst, "Troll") = 6
        /\ Chebyshev(src, dst) = 4

\* the shove to (12,6) was tried and refused
C13_Witness == ShoveTo12 /\ ret # OkUnit /\ get(squares, Coord(8, 6)) = "Troll"

\* the squares one step from c in a direction of the list that hold a Dwarf
CaptureTargets(board, c, dirs) ==
    {d \in {Coord(c.x + modifier(dirs[i])[1], c.y + modifier(dirs[i])[2]) :
                i \in DOMAIN dirs} :
        Holds(board, d, "Dwarf")}

C15_DwarfMove ==
    op = "dwarf_move" =>
        LET legal == /\ get(pre, src) = "Dwarf"
                     /\ get(pre, dst) = "Empty"
                     /\ OnLine(src, dst)
                     /\ \A c \in Between(src, dst) : get(pre, c) = "Empty"
        IN  /\ ret = OkUnit <=> legal
            /\ ret = OkUnit => Relocated("Dwarf")
            /\ ret # OkUnit => squares = pre

\* a dwarf has moved six squares along a diagonal
C15_Witness ==
    op = "dwarf_move" /\ ret = OkUnit /\ Chebyshev(src, dst) = 6
        /\ src.x # dst.x /\ src.y # dst.y /\ get(squares, dst) = "Dwarf"

\* C16: a dwarf_move from a Dwarf square to an Empty square on the same line
\* with an occupied square (Dwarf, Troll or Thudstone) strictly between them
\* returns Obstacle and changes nothing.
C16_Obstruction ==
    (/\ op = "dwarf_move"
     /\ get(pre, src) = "Dwarf"
     /\ get(pre, dst) = "Empty"
     /\ OnLine(src, dst)
     /\ \E c \in Between(src, dst) : get(pre, c) \in {"Dwarf", "Troll", "Thudstone"})
        => ret.kind = "Obstacle" /\ squares = pre

\* a dwarf was stopped by a Thudstone standing in its way
C16_Witness ==
    /\ op = "dwarf_move" /\ ret.kind = "Obstacle"
    /\ get(pre, src) = "Dwarf" /\ get(pre, dst) = "Empty"
    /\ \E c \in Between(src, dst) : get(pre, c) = "Thudstone"

\* trolls anywhere on the 15x15 grid
TrollCount(board) == Cardinality({c \in Squares : get(board, c) = "Troll"})

\* C17: dwarf_hurl(src, dst) succeeds iff src holds a Dwarf, dst holds a Troll
\* (an Empty dst is rejected with IllegalMove), they lie on a common line,
\* every square strictly between them is Empty and the Chebyshev distance is
\* at most the length of the contiguous Dwarf line that starts at src and runs
\* opposite to the direction of travel; on success dst holds the Dwarf, src is
\* Empty and nothing else changes: one Troll fewer, as many Dwarves as before.
C17_DwarfHurl ==
    op = "dwarf_hurl" =>
        LET legal == /\ get(pre, src) = "Dwarf"
                     /\ get(pre, dst) = "Troll"
                     /\ OnLine(src, dst)
                     /\ \A c \in Between(src, dst) : get(pre, c) = "Empty"
                     /\ Chebyshev(src, dst) <= LineBehind(pre, src, dst, "Dwarf")
        IN  /\ ret = OkUnit <=> legal
            /\ get(pre, dst) = "Empty" => ret = IllegalMove
            /\ ret = OkUnit =>
                /\ Relocated("Dwarf")
                /\ TrollCount(squares) = TrollCount(pre) - 1
                /\ DwarfCount(squares) = DwarfCount(pre)
            /\ ret # OkUnit => squares = pre

\* a dwarf backed by a line of four was hurled three squares onto a troll
C17_Witness ==
    op = "dwarf_hurl" /\ ret = OkUnit /\ Chebyshev(src, dst) = 3
        /\ get(pre, dst) = "Troll" /\ get(squares, dst) = "Dwarf"

\* the eight unit steps
Steps == {<<dx, dy>> : dx \in -1..1, dy \in -1..1} \ {<<0, 0>>}

\* the square k steps from c along d
At(c, d, k) == Coord(c.x + k * d[1], c.y + k * d[2])

\* the first k squares from c along d are squares of the board and Empty
Reach(board, c, d, k) == \A j \in 1..k : Holds(board, At(c, d, j), "Empty")

\* the elements of a Vec
Elements(vec) == {vec[i] : i \in DOMAIN vec}

\* the destinations C18 gives a Dwarf at loc
DwarfDestinations(board, loc) ==
    {c \in Squares :
        \E d \in Steps, k \in 1..14 :
            /\ c = At(loc, d, k)
            /\ Reach(board, loc, d, k - 1)
            /\ \/ Holds(board, c, "Empty")
               \/ /\ Holds(board, c, "Troll")
                  /\ k <= LineBehind(board, loc, At(loc, d, 1), "Dwarf")}

\* C18: for a Dwarf at loc, available_moves(loc) contains, in each of the 8
\* directions, exactly the Empty squares before the first non-Empty square,
\* plus that square when it holds a Troll whose Chebyshev distance from loc is
\* at most the length of the Dwarf line behind loc; nothing beyond it.
C18_DwarfMoves ==
    (op = "available_moves" /\ get(squares, src) = "Dwarf") =>
        Elements(ret.a) = DwarfDestinations(squares, src)

\* the destinations C19 gives a Troll at loc
TrollDestinations(board, loc) ==
    {c \in Squares :
        \E d \in Steps, k \in 1..14 :
            /\ c = At(loc, d, k)
            /\ k <= LineBehind(board, loc, At(loc, d, 1), "Troll")
            /\ Reach(board, loc, d, k)}

\* C19: for a Troll at loc, available_moves(loc) contains, in each of the 8
\* directions, exactly the Empty squares at Chebyshev distance 1..L from loc
\* (L the length of the Troll line behind loc) with every square between loc
\* and the destination Empty; for an Empty or Thudstone square it is empty.
C19_TrollMoves ==
    op = "available_moves" =>
        /\ get(squares, src) = "Troll" =>
                Elements(ret.a) = TrollDestinations(squares, src)
        /\ get(squares, src) \in {"Empty", "Thudstone"} => ret.a = <<>>

\* no piece of the army has a destination
NoMoves(board, piece) ==
    \A c \in Squares : Holds(board, c, piece) => available_moves(board, c) = <<>>

\* C20: Board::winner() returns Some iff the available_moves destinations of
\* all Dwarves together number zero or those of all Trolls do; then, with
\* score() = (number of Dwarves, 4 x number of Trolls), it is Won(Dwarf) if
\* the dwarf score is higher, Won(Troll) if the troll score is higher and Draw
\* if the two are equal.
C20_BoardWinner ==
    op = "winner" =>
        LET dwarves == DwarfCount(squares)
            trolls == 4 * TrollCount(squares)
        IN  /\ score(squares) = <<dwarves, trolls>>
            /\ ret # Option("None")
                <=> (NoMoves(squares, "Dwarf") \/ NoMoves(squares, "Troll"))
            /\ ret # Option("None") =>
                ret = Option(IF dwarves > trolls THEN "WonDwarf"
                             ELSE IF trolls > dwarves THEN "WonTroll"
                             ELSE "Draw")

\* one Dwarf with nowhere to go against one Troll that can move: 1 against 4
C20_Witness ==
    /\ op = "winner" /\ ret = Option("WonTroll")
    /\ DwarfCount(squares) = 1 /\ TrollCount(squares) = 1
    /\ ~NoMoves(squares, "Troll")

\* the region predicate of the spec
InRegion(x, y) ==
    /\ 5 <= x + y /\ x + y <= 23
    /\ 15 - x + y >= 6
    /\ 15 + x - y >= 6

\* C23: for all (x, y) with 0 <= x, y <= 14, zero_based(x, y) succeeds (with
\* the Coord (x, y)) iff 5 <= x+y <= 23, 15-x+y >= 6 and 15+x-y >= 6; for
\* every pair with x > 14 or y > 14 it fails with InvalidPosition.
C23_Region ==
    op = "zero_based" =>
        /\ (src.x <= 14 /\ src.y <= 14) => (ret.ok <=> InRegion(src.x, src.y))
        /\ (src.x > 14 \/ src.y > 14) => ret = Err(InvalidPosition)
        /\ ret.ok => ret.val = src
        /\ ~ret.ok => ret = Err(InvalidPosition)

\* the corner square (5,0) was accepted
C23_Witness == op = "zero_based" /\ ret.ok /\ src = Coord(5, 0) /\ ret.val = Coord(5, 0)

\* the pairs zero_based accepts
Accepted == {c \in RawPairs : zero_based(c.x, c.y).ok}

\* C24 as stated: zero_based accepts exactly 181 coordinates.
C24_Squares181 == op = "zero_based" => Cardinality(Accepted) = 181

\* C24 (amended): zero_based accepts exactly 165 coordinates, the 225 pairs
\* of the 15x15 grid less 15 in each of the four corners.
C24_Squares165 ==
    op = "zero_based" =>
        /\ Cardinality(Accepted) = 165
        /\ 165 = 225 - 4 * 15
        /\ ret.ok <=> src \in Accepted

\* a pair of a cut corner was refused
C24_Witness ==
    op = "zero_based" /\ ~ret.ok /\ src = Coord(4, 0) /\ src \notin Accepted

\* a pair of the 15x15 grid that lies in the region
Valid(c) == c.x \in 0..14 /\ c.y \in 0..14 /\ InRegion(c.x, c.y)

\* C25: every Coord value obtained from zero_based (and so from one_based and
\* From<(usize, usize)>), Direction::modify or Coord::diff satisfies the
\* region predicate (diff being applied to two Coords of the region).
C25_CoordsInRegion ==
    (/\ op \in {"zero_based", "modify", "diff"}
     /\ op = "diff" => (Valid(src) /\ Valid(dst))
     /\ ret.ok) => Valid(ret.val)

\* C27: for two distinct valid coordinates a, b on a common row, column or
\* diagonal and d = from_route(a, b), applying d.modify max(|dx|, |dy|) times
\* from a never fails on the way and ends at b.
C27_RoundTrip ==
    (op = "round_trip" /\ Valid(src) /\ Valid(dst)) =>
        /\ OnLine(src, dst)
        /\ ret = Ok(dst)

\* the walk across the whole board, 14 steps from (0,7) to (14,7)
C27_Witness ==
    op = "round_trip" /\ src = Coord(0, 7) /\ dst = Coord(14, 7) /\ ret = Ok(dst)
        /\ Chebyshev(src, dst) = 14

\* the unit vector of a direction: Up is increasing y, Right is increasing x
UnitVector(dir) ==
    <<IF dir \in {"UpRight", "Right", "DownRight"} THEN 1
      ELSE IF dir \in {"UpLeft", "Left", "DownLeft"} THEN -1 ELSE 0,
      IF dir \in {"UpLeft", "Up", "UpRight"} THEN 1
      ELSE IF dir \in {"DownLeft", "Down", "DownRight"} THEN -1 ELSE 0>>

\* C28: from_route(start, end) returns MathError iff start = end or the two
\* are not aligned (dx # 0, dy # 0 and |dx| # |dy|); otherwise it returns the
\* direction whose unit vector is (sign(dx), sign(dy)).
C28_FromRoute ==
    op = "from_route" =>
        LET dx == dst.x - src.x
            dy == dst.y - src.y
            unaligned == dx # 0 /\ dy # 0 /\ Abs(dx) # Abs(dy)
        IN  /\ ret = Err(MathError) <=> (src = dst \/ unaligned)
            /\ ret.ok <=> ret # Err(MathError)
            /\ ret.ok => (ret.val \in Direction /\ UnitVector(ret.val) = <<Sgn(dx), Sgn(dy)>>)

\* the route of the test (4,9) -> (6,7) is DownRight
C28_Witness ==
    op = "from_route" /\ src = Coord(4, 9) /\ dst = Coord(6, 7) /\ ret = Ok("DownRight")

\* C29: modify(loc) returns loc offset by the unit vector of the direction
\* when that square is inside the region and MathError otherwise; it does not
\* wrap, clamp or underflow at x = 0 or y = 0.
C29_Modify ==
    op = "modify" =>
        LET x == src.x + UnitVector(dst)[1]
            y == src.y + UnitVector(dst)[2]
        IN  IF x >= 0 /\ y >= 0 /\ x <= 14 /\ y <= 14 /\ InRegion(x, y)
            THEN ret = Ok(Coord(x, y))
            ELSE ret = Err(MathError)

\* a step off the left edge was refused
C29_Witness ==
    op = "modify" /\ src = Coord(0, 7) /\ dst = "Left" /\ ret = Err(MathError)

\* the number of steps from o along d before a step leaves the region
RayLength(o, d) ==
    CHOOSE n \in 0..15 :
        /\ \A k \in 1..n : Valid(At(o, d, k))
        /\ ~Valid(At(o, d, n + 1))

\* C30: a ray cast from o in direction d yields, in order, exactly the squares
\* o + k*d for k = 1..n with their occupants, n the number of steps before a
\* step would leave the region; it never yields o, yields nothing when the
\* first step is off the board, and n is at most 14.
C30_RayCast ==
    op = "cast" =>
        LET d == UnitVector(dst)
            n == RayLength(src, d)
        IN  /\ Len(ret.val) = n
            /\ n <= 14
            /\ \A k \in 1..n :
                ret.val[k] = [coord |-> At(src, d, k), piece |-> get(squares, At(src, d, k))]
            /\ \A k \in 1..Len(ret.val) : ret.val[k].coord # src
            /\ ~Valid(At(src, d, 1)) => ret.val = <<>>

\* the longest ray: 14 squares from (0,7) to the right, the Thudstone seventh
C30_Witness ==
    /\ op = "cast" /\ src = Coord(0, 7) /\ dst = "Right" /\ Len(ret.val) = 14
    /\ ret.val[7] = [coord |-> Coord(7, 7), piece |-> "Thudstone"]

\* C26: every grid cell outside the octagonal region holds Empty.
C26_OffRegionEmpty ==
    \A c \in Squares : ~InRegion(c.x, c.y) => get(squares, c) = "Empty"

\* some Dwarf has a dwarf_move or a dwarf_hurl that would succeed
DwarfCanAct(board) ==
    \E c \in Squares :
        /\ Holds(board, c, "Dwarf")
        /\ \E d \in Steps, k \in 1..14 :
            /\ Valid(At(c, d, k))
            /\ \/ dwarf_move(board, c, At(c, d, k)).res.ok
               \/ dwarf_hurl(board, c, At(c, d, k)).res.ok

\* some Troll has a troll_move or a troll_shove that would succeed
TrollCanAct(board) ==
    \E c \in Squares :
        /\ Holds(board, c, "Troll")
        /\ \E d \in Steps, k \in 1..14 :
            /\ Valid(At(c, d, k))
            /\ \/ troll_move(board, c, At(c, d, k)).res.ok
               \/ troll_shove(board, c, At(c, d, k)).res.ok

\* C21: on any board where some Dwarf has a dwarf_move or dwarf_hurl that
\* would succeed and some Troll has a troll_move or troll_shove that would
\* succeed, Board::winner() returns None.
C21_NoneWhileMoves ==
    (op = "winner" /\ DwarfCanAct(squares) /\ TrollCanAct(squares))
        => ret = Option("None")

\* C22 as stated: on any board where no Dwarf can move or hurl, winner()
\* returns Won(Troll) or Draw, never None and never Won(Dwarf).
C22_NeverWonDwarf ==
    (op = "winner" /\ ~DwarfCanAct(squares))
        => ret \in {Option("WonTroll"), Option("Draw")}

\* C22 (amended): on any board where no Dwarf can move or hurl, winner()
\* never returns None; it returns the outcome of the score() comparison:
\* Won(Troll) if 4 x trolls exceeds the dwarves, Draw if they are equal and
\* Won(Dwarf) if the dwarves exceed 4 x trolls.
C22_StuckDwarvesEnd ==
    (op = "winner" /\ ~DwarfCanAct(squares)) =>
        LET dwarves == DwarfCount(squares)
            trolls == 4 * TrollCount(squares)
        IN  /\ ret # Option("None")
            /\ ret = Option("WonTroll") <=> trolls > dwarves
            /\ ret = Option("Draw") <=> trolls = dwarves
            /\ ret = Option("WonDwarf") <=> dwarves > trolls

\* a walled-in Dwarf and a Troll that can move: the game is over, 1 against 4
C22_Witness ==
    /\ op = "winner" /\ ~DwarfCanAct(squares) /\ TrollCanAct(squares)
    /\ DwarfCount(squares) = 1 /\ ret = Option("WonTroll")

\* C31: count_line(start, dir, kind) returns 0 if start does not hold kind;
\* otherwise 1 plus the number of consecutive squares holding kind met walking
\* dir from start before the first other square or the edge of the board, so
\* a piece with nothing of its kind behind it has line length 1.
C31_CountLine ==
    op = "count_line" =>
        LET d == UnitVector(dst[1])
            kind == dst[2]
            more == CHOOSE n \in 0..14 :
                        /\ \A k \in 1..n : Holds(squares, At(src, d, k), kind)
                        /\ ~Holds(squares, At(src, d, n + 1), kind)
        IN  /\ get(squares, src) # kind => ret.a = 0
            /\ get(squares, src) = kind => ret.a = 1 + more
            /\ (get(squares, src) = kind /\ ~Holds(squares, At(src, d, 1), kind))
                    => ret.a = 1

\* the line of six dwarves along the lower left edge, counted from (5,0)
C31_Witness ==
    /\ op = "count_line" /\ squares = fresh /\ src = Coord(5, 0)
    /\ dst = <<"UpLeft", "Dwarf">> /\ ret.a = 6

\* C32: no deadlock in the mandatory-capture phase: in every reachable state
\* in phase PostTrollMove(true) the troll that has just shoved (it stands on
\* dst) has a Dwarf next to it, and there are a troll square and a direction
\* list for which troll_cap succeeds and leads to Nominal(Dwarf).
C32_CaptureAvailable ==
    state = PostTrollMove(TRUE) =>
        /\ get(squares, dst) = "Troll"
        /\ \E d \in Direction :
              /\ modify(d, dst).ok
              /\ get(squares, modify(d, dst).val) = "Dwarf"
              /\ LET r == troll_cap(Now, dst, <<d>>)
                 IN  r.ret = OkUnit /\ r.state = Nominal("Dwarf")

\* a shove has just been made and its capture is still owed
C32_Witness ==
    /\ state = PostTrollMove(TRUE) /\ op = "attack" /\ ret = OkUnit
    /\ prev = Nominal("Troll") /\ get(squares, dst) = "Troll"

\* C33 as stated: in phase PostTrollMove(_) a troll_cap naming a troll square
\* other than that of the Troll that moved or shoved in this turn (dst)
\* removes no dwarf and does not end the turn.
C33_OnlyMover ==
    state[1] = "PostTrollMove" =>
        \A troll \in Arena \ {dst}, targets \in DirLists :
            LET r == troll_cap(Now, troll, targets)
            IN DwarfCount(r.board) = DwarfCount(squares) /\ r.state = state

\* C33 (amended): in phase PostTrollMove(_) troll_cap removes only dwarves
\* adjacent to the troll square named in the call, in the directions listed,
\* whichever Troll stands there: a call naming a Troll other than the one that
\* moved or shoved in this turn, with a Dwarf in a listed direction, removes
\* that Dwarf as well and ends the turn in Nominal(Dwarf).
C33_NamedTroll ==
    state[1] = "PostTrollMove" =>
        \A troll \in Arena, targets \in DirLists :
            LET r == troll_cap(Now, troll, targets)
                taken == CaptureTargets(squares, troll, targets)
            IN  /\ r.ret = OkUnit =>
                    /\ get(squares, troll) = "Troll"
                    /\ r.state = Nominal("Dwarf")
                    /\ \A c \in taken : Chebyshev(c, troll) = 1 /\ get(r.board, c) = "Empty"
                    /\ \A c \in Squares \ taken : get(r.board, c) = get(squares, c)
                /\ (get(squares, troll) = "Troll" /\ taken # {}) =>
                    (r.ret = OkUnit /\ r.state = Nominal("Dwarf"))

\* a capture owed after a shove was made by a Troll that had not moved
C33_Witness ==
    /\ op = "troll_cap" /\ ret = OkUnit /\ prev = PostTrollMove(TRUE)
    /\ state = Nominal("Dwarf") /\ src # dst
    /\ get(squares, src) = "Troll" /\ get(squares, dst) = "Troll"

\* C34: piece counts never grow.  In every state reachable from Thud::new()
\* there are at most 32 Dwarves and at most 8 Trolls and score() lies within
\* (0..32, 0..32); move_piece and a Troll's attack change neither count, a
\* Dwarf's successful attack lowers the Troll count by exactly 1 and leaves
\* the Dwarf count, and a troll_cap lowers the Dwarf count by the number
\* captured (at most 8) and leaves the Troll count; a failed call and
\* winner() change nothing.
C34_PieceCounts ==
    /\ DwarfCount(squares) <= 32 /\ TrollCount(squares) <= 8
    /\ [][/\ (op' = "winner" \/ ret' # OkUnit) => squares' = squares
          /\ squares' # squares =>
               LET D  == DwarfCount(squares)
                   T  == TrollCount(squares)
                   D2 == DwarfCount(squares')
                   T2 == TrollCount(squares')
               IN  /\ D2 <= 32 /\ T2 <= 8 /\ D2 <= D /\ T2 <= T
                   /\ score(squares')[1] \in 0..32 /\ score(squares')[2] \in 0..32
                   /\ score(squares') = <<D2, 4 * T2>>
                   /\ op' = "move_piece" => (D2 = D /\ T2 = T)
                   /\ (op' = "attack" /\ state = Nominal("Troll")) => (D2 = D /\ T2 = T)
                   /\ (op' = "attack" /\ state = Nominal("Dwarf")) => (D2 = D /\ T2 = T - 1)
                   /\ op' = "troll_cap"
                        => /\ T2 = T /\ D - D2 \in 1..8
                           /\ \E targets \in DirLists :
                                 troll_capture(squares, src', targets)
                                     = Outcome(Ok(D - D2), squares')]_vars

\* a Troll has been hurled at and a Dwarf captured since the game began
C34_Witness ==
    /\ DwarfCount(squares) < 32 /\ TrollCount(squares) < 8
    /\ score(squares) = <<DwarfCount(squares), 4 * TrollCount(squares)>>

\* C35: the phase changes only along Nominal(Dwarf) -> Nominal(Troll) ->
\* PostTrollMove(_) -> Nominal(Dwarf), each step by a successful call of the
\* player whose step it is, or from any phase that is not GameEnded to
\* GameEnded through winner(); every call that changes the board is
\* successful and takes one of these steps, so the board-changing calls
\* alternate as one dwarf move or hurl, one troll move or shove, one
\* troll_cap, neither player acting twice in a row or skipping the capture.
C35_PhaseCycle ==
    [][/\ state' # state =>
            \/ /\ state = Nominal("Dwarf") /\ state' = Nominal("Troll")
               /\ op' \in {"move_piece", "attack"} /\ ret' = OkUnit
            \/ /\ state = Nominal("Troll") /\ state'[1] = "PostTrollMove"
               /\ op' \in {"move_piece", "attack"} /\ ret' = OkUnit
               /\ state' = PostTrollMove(op' = "attack")
            \/ /\ state[1] = "PostTrollMove" /\ state' = Nominal("Dwarf")
               /\ op' = "troll_cap" /\ ret' = OkUnit
            \/ /\ state[1] # "GameEnded" /\ state'[1] = "GameEnded"
               /\ op' = "winner" /\ squares' = squares
       /\ (op' \in Mutators /\ ret' = OkUnit) => state' # state
       /\ squares' # squares =>
            /\ op' \in Mutators /\ ret' = OkUnit
            /\ state[1] = "Nominal" =>
                  /\ op' \in {"move_piece", "attack"}
                  /\ get(squares', dst') = "Troll" <=> state = Nominal("Troll")
            /\ state[1] = "PostTrollMove" => op' = "troll_cap"]_vars

\* a full turn has gone round: a Dwarf is to move again after a capture
\* that followed a Troll's move or shove
C35_Witness ==
    /\ op = "troll_cap" /\ ret = OkUnit /\ prev[1] = "PostTrollMove"
    /\ state = Nominal("Dwarf") /\ dst # NoCoord /\ get(squares, dst) = "Troll"

\* C36: available_moves agrees with the move primitives on every board: for
\* a Dwarf at loc, dst is in available_moves(loc) iff dwarf_move(loc, dst) or
\* dwarf_hurl(loc, dst) would succeed; for a Troll at loc, dst is in
\* available_moves(loc) iff troll_move(loc, dst) or troll_shove(loc, dst)
\* would succeed.
C36_MovesAgree ==
    (op = "available_moves" /\ Valid(src)) =>
        LET listed == Elements(ret.a)
        IN  /\ get(pre, src) = "Dwarf" =>
                \A c \in {q \in Squares : Valid(q)} :
                    c \in listed <=> \/ dwarf_move(pre, src, c).res.ok
                                     \/ dwarf_hurl(pre, src, c).res.ok
            /\ get(pre, src) = "Troll" =>
                \A c \in {q \in Squares : Valid(q)} :
                    c \in listed <=> \/ troll_move(pre, src, c).res.ok
                                     \/ troll_shove(pre, src, c).res.ok

====
